---- MODULE Spec2Model ----
(***************************************************************************)
(* Model of src/podcast_transcripts.py: PodcastTranscriptDownloader.       *)
(*                                                                         *)
(* Spec          one run of download_all_transcripts, step by step         *)
(* SpecSanitize  the title sanitization of download_transcript             *)
(* SpecPage      check_existing_transcript on every page of Pages          *)
(***************************************************************************)
EXTENDS Integers, Sequences, FiniteSets, TLC

VARIABLES
    pc,                   \* position in download_all_transcripts
    apple_podcast_url,    \* argument of download_all_transcripts
    lookup_response,      \* what the iTunes lookup answers in this run
    feed_response,        \* what the feed address answers in this run
    podcast_id,           \* result of extract_podcast_id
    invoked,              \* pipeline stages invoked so far
    net,                  \* kinds of network calls made so far
    reason,               \* diagnostic printed when the pipeline stops early
    output_dir,           \* TRUE once os.makedirs(output_dir) has run
    idx,                  \* i of enumerate(feed.entries, 1)
    processed,            \* entry positions handed to download_transcript
    successful_downloads,
    failed_downloads,
    files,                \* output directory: filename -> content
    temp_files,           \* temporary audio files that exist on disk
    cur,                  \* locals of the episode being processed
    load_calls,           \* calls of whisper.load_model in this run
    model_loads,          \* calls of whisper.load_model that returned a model
    nonempty_downloads,   \* invocations whose download gave a non-empty file
    dl_failed_episodes,   \* invocations in which both transports failed
    title,                \* SpecSanitize: the title under test
    safe_once,            \* SpecSanitize: sanitize(title)
    safe_twice,           \* SpecSanitize: sanitize(sanitize(title))
    page,                 \* SpecPage: the page under test
    page_out              \* SpecPage: what check_existing_transcript gave

vars == <<pc, apple_podcast_url, lookup_response, feed_response, podcast_id,
          invoked, net, reason, output_dir, idx, processed,
          successful_downloads, failed_downloads, files, temp_files, cur,
          load_calls, model_loads, nonempty_downloads, dl_failed_episodes,
          title, safe_once, safe_twice, page, page_out>>

run_vars == <<pc, apple_podcast_url, lookup_response, feed_response,
              podcast_id, invoked, net, reason, output_dir, idx, processed,
              successful_downloads, failed_downloads, files, temp_files, cur,
              load_calls, model_loads, nonempty_downloads, dl_failed_episodes>>

sanitize_vars == <<title, safe_once, safe_twice>>

page_vars == <<page, page_out>>

(***************************************************************************)
(* Bounds                                                                  *)
(***************************************************************************)
MaxEpisodes == 2

MaxTitleLen == 3

(***************************************************************************)
(* Python values that a transcript can be                                  *)
(***************************************************************************)
\* None
None == [kind |-> "none", text |-> <<>>]

\* a str; text is its characters (tokens), <<>> is ''
Str(t) == [kind |-> "str", text |-> t]

\* a truthy JSON value that is not a str (a non-empty list or object)
NonStr == [kind |-> "nonstr", text |-> <<>>]

\* Python truthiness, as used by `if transcript:` and `if transcript_content:`
Truthy(v) == v.kind = "nonstr" \/ (v.kind = "str" /\ v.text # <<>>)

(***************************************************************************)
(* Title sanitization: download_transcript, lines 108-109                  *)
(***************************************************************************)
\* characters matched by \w among those the model uses
WordChars == {"a", "b", "M", "y", "E", "p", "i", "s", "o", "d", "e", "P",
              "r", "t", "2", "_"}

\* characters matched by \s
SpaceChars == {" ", "\t"}

IsWord(c) == c \in WordChars

IsSpace(c) == c \in SpaceChars

\* [^\w\s-] does not match c
Kept(c) == IsWord(c) \/ IsSpace(c) \/ c = "-"

\* [-\s] matches c
IsSep(c) == IsSpace(c) \/ c = "-"

\* re.sub(r'[^\w\s-]', '', t)
remove_unsafe(t) == SelectSeq(t, Kept)

\* re.sub(r'[-\s]+', '-', t): every maximal run of separators becomes one '-'
RECURSIVE collapse_runs(_)
collapse_runs(t) ==
    IF t = <<>> THEN <<>>
    ELSE IF IsSep(Head(t))
         THEN IF Len(t) > 1 /\ IsSep(t[2])
              THEN collapse_runs(Tail(t))
              ELSE <<"-">> \o collapse_runs(Tail(t))
         ELSE <<Head(t)>> \o collapse_runs(Tail(t))

\* the two substitutions in the wrong order
sanitize_swapped(t) == remove_unsafe(collapse_runs(t))

\* safe_title of download_transcript
sanitize(t) == collapse_runs(remove_unsafe(t))

(***************************************************************************)
(* Identifier extraction: extract_podcast_id                               *)
(***************************************************************************)
Digits == {"1", "2", "7"}

\* the longest run of digits of u that starts at position p
RECURSIVE digit_run(_, _)
digit_run(u, p) ==
    IF p <= Len(u) /\ u[p] \in Digits
    THEN <<u[p]>> \o digit_run(u, p + 1)
    ELSE <<>>

\* positions where /id(\d+) matches
id_matches(u) ==
    {p \in 1..Len(u) : /\ p + 3 <= Len(u)
                       /\ u[p] = "/" /\ u[p + 1] = "i" /\ u[p + 2] = "d"
                       /\ u[p + 3] \in Digits}

Min(S) == CHOOSE x \in S : \A y \in S : x <= y

\* re.search(r'/id(\d+)', url): group 1 of the leftmost match, or None
extract_podcast_id(u) ==
    IF id_matches(u) = {} THEN None
    ELSE Str(digit_run(u, Min(id_matches(u)) + 3))

(***************************************************************************)
(* Existing-transcript extraction: check_existing_transcript               *)
(***************************************************************************)
\* markup tags, matched by <[^>]+>
TagTokens == {"<b>", "</b>"}

NotTag(c) == c \notin TagTokens

\* re.sub(r'<[^>]+>', '', fragment)
strip_tags(f) == SelectSeq(f, NotTag)

RECURSIVE lstrip(_)
lstrip(f) == IF f # <<>> /\ IsSpace(Head(f)) THEN lstrip(Tail(f)) ELSE f

RECURSIVE rstrip(_)
rstrip(f) ==
    IF f # <<>> /\ IsSpace(f[Len(f)])
    THEN rstrip(SubSeq(f, 1, Len(f) - 1))
    ELSE f

\* str.strip()
strip(f) == rstrip(lstrip(f))

\* html.unescape
unescape(f) == [k \in 1..Len(f) |-> IF f[k] = "&amp;" THEN "&" ELSE f[k]]

\* lines 186-187: html.unescape(re.sub(r'<[^>]+>', '', match.group(1)).strip())
clean_html(f) == Str(unescape(strip(strip_tags(f))))

\* a regular expression that did not match
NoMatch == [m |-> FALSE, frag |-> <<>>]

\* a regular expression that matched; frag is match.group(1)
Match(f) == [m |-> TRUE, frag |-> f]

\* the first <script type="application/ld+json"> block of a page:
\* absent, not JSON, JSON without a 'transcript' field, or with one
NoJsonLd == [kind |-> "absent", value |-> None]

BadJsonLd == [kind |-> "invalid", value |-> None]

JsonLdNoField == [kind |-> "nofield", value |-> None]

JsonLdField(v) == [kind |-> "field", value |-> v]

JsonLdBlocks ==
    {NoJsonLd, BadJsonLd, JsonLdNoField,
     JsonLdField(Str(<<>>)), JsonLdField(Str(<<"j">>)), JsonLdField(NonStr)}

DivClassMatches == {NoMatch, Match(<<>>), Match(<<"<b>", "d", "</b>">>)}

SectionClassMatches == {NoMatch, Match(<<" ">>), Match(<<" ", "s", " ">>)}

DivIdMatches == {NoMatch, Match(<<"<b>", "</b>">>), Match(<<"i", "&amp;">>)}

\* an episode link and what a GET of it answers; url "" is a missing link,
\* http "error" a failed request or an error status (raise_for_status)
Pages ==
    [url : {"", "u"}, http : {"ok", "error"}, json_ld : JsonLdBlocks,
     div_class : DivClassMatches, section_class : SectionClassMatches,
     div_id : DivIdMatches]

\* transcript_patterns, lines 175-179, in list order
transcript_patterns == <<"div_class", "section_class", "div_id">>

\* re.search(pattern, content, ...) for the pattern named n
pattern_search(pg, n) ==
    CASE n = "div_class" -> pg.div_class
      [] n = "section_class" -> pg.section_class
      [] n = "div_id" -> pg.div_id

\* the loop of lines 181-187 over the patterns ps; tried is the sources
\* consulted so far
RECURSIVE try_patterns(_, _, _)
try_patterns(pg, ps, tried) ==
    IF ps = <<>> THEN [result |-> None, matched |-> FALSE, tried |-> tried]
    ELSE IF pattern_search(pg, Head(ps)).m
         THEN [result |-> clean_html(pattern_search(pg, Head(ps)).frag),
               matched |-> TRUE,
               tried |-> Append(tried, Head(ps))]
         ELSE try_patterns(pg, Tail(ps), Append(tried, Head(ps)))

\* check_existing_transcript with the HTML patterns consulted before JSON-LD
check_existing_transcript_html_first(pg) ==
    IF pg.url = "" \/ pg.http = "error"
    THEN [result |-> None, matched |-> FALSE, tried |-> <<>>]
    ELSE LET h == try_patterns(pg, transcript_patterns, <<>>)
         IN  IF h.matched THEN h
             ELSE IF pg.json_ld.kind = "field"
                  THEN [result |-> pg.json_ld.value, matched |-> TRUE,
                        tried |-> Append(h.tried, "json_ld")]
                  ELSE [result |-> None, matched |-> FALSE,
                        tried |-> Append(h.tried, "json_ld")]

\* check_existing_transcript(episode_url): the value returned, whether a
\* source matched, and the sources consulted, in order
check_existing_transcript(pg) ==
    IF pg.url = "" THEN [result |-> None, matched |-> FALSE, tried |-> <<>>]
    ELSE IF pg.http = "error"
         THEN [result |-> None, matched |-> FALSE, tried |-> <<>>]
         ELSE IF pg.json_ld.kind = "field"
              THEN [result |-> pg.json_ld.value, matched |-> TRUE,
                    tried |-> <<"json_ld">>]
              ELSE try_patterns(pg, transcript_patterns, <<"json_ld">>)

(***************************************************************************)
(* The inputs of one run                                                   *)
(***************************************************************************)
\* Apple Podcasts URLs: with an identifier, without, and with /id but no digit
SampleUrls ==
    {<<"/", "a", "/", "i", "d", "1", "2", "7">>,
     <<"/", "a", "/", "b">>,
     <<"/", "i", "d", "a", "1">>}

\* answers of the iTunes lookup: a failed request or a body that is not the
\* expected JSON, resultCount 0, a result without feedUrl, a result with one
LookupResponses ==
    {[ok |-> FALSE, resultCount |-> 0, feedUrl |-> ""],
     [ok |-> TRUE, resultCount |-> 0, feedUrl |-> "f"],
     [ok |-> TRUE, resultCount |-> 1, feedUrl |-> ""],
     [ok |-> TRUE, resultCount |-> 1, feedUrl |-> "f"]}

\* feed entries: title, enclosures (hrefs) and links (type, href)
SampleEntries ==
    {[title |-> <<"a">>, enclosures |-> <<"m1">>, links |-> <<>>],
     [title |-> <<"a", "!">>, enclosures |-> <<>>,
      links |-> <<[type |-> "text/html", href |-> "h"],
                  [type |-> "audio/mpeg", href |-> "m2"]>>],
     [title |-> <<"b">>, enclosures |-> <<>>,
      links |-> <<[type |-> "text/html", href |-> "h"]>>],
     [title |-> <<"a">>, enclosures |-> <<>>, links |-> <<>>]}

\* link types for which type.startswith('audio/') holds
AudioTypes == {"audio/mpeg"}

SeqsUpTo(S, n) == UNION {[1..k -> S] : k \in 0..n}

\* answers of the feed address: an error status, an exception of the request
\* or of the parser, or a feed with its entries in feed order
FeedResponses ==
    {[status |-> 404, raised |-> FALSE, entries |-> <<>>],
     [status |-> 200, raised |-> TRUE, entries |-> <<>>]}
    \cup {[status |-> 200, raised |-> FALSE, entries |-> es] :
             es \in SeqsUpTo(SampleEntries, MaxEpisodes)}

\* episode pages met during a run: no link, no transcript markup, an empty
\* transcript container, a transcript in a div, and JSON-LD transcript fields
\* holding a str and a value that is not a str
BlankPage ==
    [url |-> "u", http |-> "ok", json_ld |-> NoJsonLd, div_class |-> NoMatch,
     section_class |-> NoMatch, div_id |-> NoMatch]

SamplePages ==
    {[BlankPage EXCEPT !.url = ""],
     BlankPage,
     [BlankPage EXCEPT !.json_ld = JsonLdNoField, !.div_class = Match(<<>>)],
     [BlankPage EXCEPT !.div_class = Match(<<"<b>", "d", "</b>">>)],
     [BlankPage EXCEPT !.json_ld = JsonLdField(Str(<<"j">>)),
                       !.div_id = Match(<<"i", "&amp;">>)],
     [BlankPage EXCEPT !.json_ld = JsonLdField(NonStr)]}

\* the output files a run can write: f"{safe_title}.txt"
FileNames == {sanitize(e.title) : e \in SampleEntries}

\* no file of that name
NoFile == [ep |-> 0, body |-> None, complete |-> FALSE]

(***************************************************************************)
(* get_podcast_info and get_rss_feed                                       *)
(***************************************************************************)
\* get_podcast_info: data['results'][0] when resultCount > 0, else None
get_podcast_info(r) ==
    IF r.ok /\ r.resultCount > 0
    THEN [found |-> TRUE, feedUrl |-> r.feedUrl]
    ELSE [found |-> FALSE, feedUrl |-> ""]

\* get_rss_feed: None on a status other than 200 or on an exception
get_rss_feed(r) ==
    IF r.raised \/ r.status # 200
    THEN [found |-> FALSE, entries |-> <<>>]
    ELSE [found |-> TRUE, entries |-> r.entries]

\* feed.entries of the run
Entries == get_rss_feed(feed_response).entries

\* hrefs of the links whose type starts with 'audio/', in order
RECURSIVE audio_links(_)
audio_links(ls) ==
    IF ls = <<>> THEN <<>>
    ELSE IF Head(ls).type \in AudioTypes
         THEN <<Head(ls).href>> \o audio_links(Tail(ls))
         ELSE audio_links(Tail(ls))

\* lines 343-350: the first enclosure, else the first audio link; "" is None
entry_audio_url(e) ==
    IF e.enclosures # <<>> THEN e.enclosures[1]
    ELSE IF audio_links(e.links) # <<>> THEN audio_links(e.links)[1]
         ELSE ""

(***************************************************************************)
(* State of a run                                                          *)
(***************************************************************************)
\* locals of download_transcript, fetch_transcript_content and
\* transcribe_audio_with_whisper for one episode, before any of them ran
CurIdle ==
    [audio_url |-> "",          \* episode_data['audio_url']; "" is None
     transcript |-> None,       \* result of check_existing_transcript
     matched |-> FALSE,         \* a JSON-LD field or an HTML container matched
     whisper_calls |-> 0,       \* invocations of transcribe_audio_with_whisper
     imported |-> FALSE,        \* import whisper succeeded
     m1 |-> 0,                  \* attempts of the requests transport
     m2 |-> 0,                  \* attempts of the urllib transport
     m1_failed |-> FALSE,
     m2_failed |-> FALSE,
     created |-> {},            \* temporary files this invocation created
     temp_filename |-> 0,       \* 0 is None, 1 and 2 the file of that method
     empty |-> FALSE,           \* os.path.getsize(temp_filename) == 0
     loads |-> 0,               \* whisper.load_model calls of this invocation
     transcribes |-> 0,         \* model.transcribe calls of this invocation
     returned |-> FALSE,        \* transcribe_audio_with_whisper has returned
     content |-> None,          \* transcript_content
     written |-> 0,             \* files opened for writing for this episode
     previous |-> NoFile,       \* what the file held before it was opened
     successful_before |-> 0,   \* the counters when the episode started
     failed_before |-> 0,
     result |-> "none"]         \* download_transcript: "true", "false", "raised"

RunInit ==
    /\ pc = "start"
    /\ podcast_id = None
    /\ invoked = {}
    /\ net = {}
    /\ reason = ""
    /\ output_dir = FALSE
    /\ idx = 0
    /\ processed = <<>>
    /\ successful_downloads = 0
    /\ failed_downloads = 0
    /\ files = [f \in FileNames |-> NoFile]
    /\ temp_files = {}
    /\ cur = CurIdle
    /\ load_calls = 0
    /\ model_loads = 0
    /\ nonempty_downloads = 0
    /\ dl_failed_episodes = 0

SanitizeIdle ==
    /\ title = <<>>
    /\ safe_once = None
    /\ safe_twice = None

PageIdle ==
    /\ page = BlankPage
    /\ page_out = [called |-> FALSE,
                   out |-> [result |-> None, matched |-> FALSE, tried |-> <<>>]]

Init ==
    /\ RunInit
    /\ apple_podcast_url \in SampleUrls
    /\ lookup_response \in LookupResponses
    /\ feed_response \in FeedResponses
    /\ SanitizeIdle
    /\ PageIdle

(***************************************************************************)
(* download_all_transcripts, lines 294-332: the stages before the loop     *)
(***************************************************************************)
\* lines 302-304 without the early return
after_extract_no_return(id) == "lookup"

\* lines 302-304: `if not podcast_id: return`
after_extract(id) == IF Truthy(id) THEN "lookup" ELSE "aborted"

\* lines 297-304: os.makedirs, extract_podcast_id, the first early return
ExtractPodcastId ==
    /\ pc = "start"
    /\ output_dir' = TRUE
    /\ invoked' = invoked \cup {"extract_podcast_id"}
    /\ podcast_id' = extract_podcast_id(apple_podcast_url)
    /\ pc' = after_extract(podcast_id')
    /\ reason' = IF pc' = "aborted" THEN "no_podcast_id" ELSE reason
    /\ UNCHANGED <<apple_podcast_url, lookup_response, feed_response, net,
                   idx, processed, successful_downloads, failed_downloads,
                   files, temp_files, cur, load_calls, model_loads,
                   nonempty_downloads, dl_failed_episodes>>
    /\ UNCHANGED <<sanitize_vars, page_vars>>

\* lines 307-310: get_podcast_info (one GET), the second early return
GetPodcastInfo ==
    /\ pc = "lookup"
    /\ invoked' = invoked \cup {"get_podcast_info"}
    /\ net' = net \cup {"lookup"}
    /\ IF get_podcast_info(lookup_response).found
       THEN pc' = "feed_url" /\ reason' = reason
       ELSE pc' = "aborted" /\ reason' = "no_podcast_info"
    /\ UNCHANGED <<apple_podcast_url, lookup_response, feed_response,
                   podcast_id, output_dir, idx, processed,
                   successful_downloads, failed_downloads, files, temp_files,
                   cur, load_calls, model_loads, nonempty_downloads,
                   dl_failed_episodes>>
    /\ UNCHANGED <<sanitize_vars, page_vars>>

\* lines 319-326: podcast_info.get('feedUrl'), the third early return
CheckFeedUrl ==
    /\ pc = "feed_url"
    /\ IF get_podcast_info(lookup_response).feedUrl # ""
       THEN pc' = "fetch_feed" /\ reason' = reason
       ELSE pc' = "aborted" /\ reason' = "no_feed_url"
    /\ UNCHANGED <<apple_podcast_url, lookup_response, feed_response,
                   podcast_id, invoked, net, output_dir, idx, processed,
                   successful_downloads, failed_downloads, files, temp_files,
                   cur, load_calls, model_loads, nonempty_downloads,
                   dl_failed_episodes>>
    /\ UNCHANGED <<sanitize_vars, page_vars>>

\* lines 330-337: get_rss_feed (one GET), the fourth early return
GetRssFeed ==
    /\ pc = "fetch_feed"
    /\ invoked' = invoked \cup {"get_rss_feed"}
    /\ net' = net \cup {"feed"}
    /\ IF get_rss_feed(feed_response).found
       THEN pc' = "loop" /\ reason' = reason
       ELSE pc' = "aborted" /\ reason' = "feed_failed"
    /\ UNCHANGED <<apple_podcast_url, lookup_response, feed_response,
                   podcast_id, output_dir, idx, processed,
                   successful_downloads, failed_downloads, files, temp_files,
                   cur, load_calls, model_loads, nonempty_downloads,
                   dl_failed_episodes>>
    /\ UNCHANGED <<sanitize_vars, page_vars>>

(***************************************************************************)
(* The loop over feed.entries, lines 339-371                               *)
(***************************************************************************)
\* lines 339-365: the next entry, its audio URL, the call of
\* download_transcript
NextEpisode ==
    /\ pc = "loop"
    /\ idx < Len(Entries)
    /\ idx' = idx + 1
    /\ processed' = Append(processed, idx + 1)
    /\ invoked' = invoked \cup {"download_transcript"}
    /\ cur' = [CurIdle EXCEPT
                 !.audio_url = entry_audio_url(Entries[idx + 1]),
                 !.successful_before = successful_downloads,
                 !.failed_before = failed_downloads]
    /\ pc' = "check_existing"
    /\ UNCHANGED <<apple_podcast_url, lookup_response, feed_response,
                   podcast_id, net, reason, output_dir, successful_downloads,
                   failed_downloads, files, temp_files, load_calls,
                   model_loads, nonempty_downloads, dl_failed_episodes>>
    /\ UNCHANGED <<sanitize_vars, page_vars>>

\* lines 373-375: the loop is exhausted, the tallies are printed
Finish ==
    /\ pc = "loop"
    /\ idx = Len(Entries)
    /\ pc' = "done"
    /\ UNCHANGED <<apple_podcast_url, lookup_response, feed_response,
                   podcast_id, invoked, net, reason, output_dir, idx,
                   processed, successful_downloads, failed_downloads, files,
                   temp_files, cur, load_calls, model_loads,
                   nonempty_downloads, dl_failed_episodes>>
    /\ UNCHANGED <<sanitize_vars, page_vars>>

(***************************************************************************)
(* fetch_transcript_content, lines 136-151                                 *)
(***************************************************************************)
\* fetch_transcript_content trying the audio first whenever there is one
fetch_step_audio_first(transcript, audio_url) ==
    IF audio_url # "" THEN "import_whisper" ELSE "write"

\* fetch_transcript_content without the `if audio_url:` test
fetch_step_no_audio_test(transcript, audio_url) ==
    IF Truthy(transcript) THEN "write" ELSE "import_whisper"

\* lines 143-151: return the page's transcript, else transcribe the audio if
\* there is an audio URL, else return None
fetch_step(transcript, audio_url) ==
    IF Truthy(transcript) THEN "write"
    ELSE IF audio_url # "" THEN "import_whisper"
         ELSE "write"

\* lines 138-151: check_existing_transcript on the episode's page, and the
\* choice between its result, the audio transcription and None
FetchTranscriptContent ==
    /\ pc = "check_existing"
    /\ \E pg \in SamplePages :
          LET r == check_existing_transcript(pg)
              step == fetch_step(r.result, cur.audio_url)
          IN  /\ net' = IF pg.url # "" THEN net \cup {"page"} ELSE net
              /\ pc' = step
              /\ cur' = [cur EXCEPT
                           !.transcript = r.result,
                           !.matched = r.matched,
                           !.content = IF step = "write" /\ Truthy(r.result)
                                       THEN r.result ELSE None,
                           !.whisper_calls =
                               IF step = "import_whisper" THEN @ + 1 ELSE @]
    /\ UNCHANGED <<apple_podcast_url, lookup_response, feed_response,
                   podcast_id, invoked, reason, output_dir, idx, processed,
                   successful_downloads, failed_downloads, files, temp_files,
                   load_calls, model_loads, nonempty_downloads,
                   dl_failed_episodes>>
    /\ UNCHANGED <<sanitize_vars, page_vars>>

(***************************************************************************)
(* transcribe_audio_with_whisper, lines 195-292                            *)
(***************************************************************************)
world == <<apple_podcast_url, lookup_response, feed_response, podcast_id>>

\* the temporary file that download method m of the current episode creates
TempFile(m) == <<idx, m>>

\* lines 197-204 and 283-292: the imports; a failing import returns None
ImportWhisper ==
    /\ pc = "import_whisper"
    /\ \E ok \in BOOLEAN :
          IF ok
          THEN /\ cur' = [cur EXCEPT !.imported = TRUE]
               /\ pc' = "method1"
          ELSE /\ cur' = [cur EXCEPT !.returned = TRUE, !.content = None]
               /\ pc' = "write"
    /\ UNCHANGED <<world, invoked, net, reason, output_dir, idx, processed,
                   successful_downloads, failed_downloads, files, temp_files,
                   load_calls, model_loads, nonempty_downloads,
                   dl_failed_episodes>>
    /\ UNCHANGED <<sanitize_vars, page_vars>>

\* what a download attempt can do: write the whole file, write a file of
\* zero bytes, fail before the temporary file exists (the request or
\* raise_for_status raises), or fail after NamedTemporaryFile(delete=False)
\* created it (iter_content or response.read() raises)
DownloadOutcomes == {"ok", "empty", "fail_early", "fail_mid"}

\* method 1 falling through to method 2 whatever its outcome
after_method1_fall_through(o) == "method2"

\* lines 212-225: method 2 is inside the except clause of method 1
after_method1(o) == IF o \in {"ok", "empty"} THEN "check_file" ELSE "method2"

\* lines 212-222: method 1, the requests session
Method1 ==
    /\ pc = "method1"
    /\ \E o \in DownloadOutcomes :
          /\ pc' = after_method1(o)
          /\ temp_files' = IF o = "fail_early" THEN temp_files
                           ELSE temp_files \cup {TempFile(1)}
          /\ cur' = [cur EXCEPT
                       !.m1 = @ + 1,
                       !.m1_failed = o \in {"fail_early", "fail_mid"},
                       !.created = IF o = "fail_early" THEN @
                                   ELSE @ \cup {TempFile(1)},
                       !.temp_filename = IF o \in {"ok", "empty"} THEN 1 ELSE @,
                       !.empty = (o = "empty")]
    /\ net' = net \cup {"audio_requests"}
    /\ UNCHANGED <<world, invoked, reason, output_dir, idx, processed,
                   successful_downloads, failed_downloads, files, load_calls,
                   model_loads, nonempty_downloads, dl_failed_episodes>>
    /\ UNCHANGED <<sanitize_vars, page_vars>>

\* lines 225-242: method 2, urllib with certificate validation disabled;
\* when it fails too the invocation returns None
Method2 ==
    /\ pc = "method2"
    /\ \E o \in DownloadOutcomes :
          /\ pc' = IF o \in {"ok", "empty"} THEN "check_file" ELSE "write"
          /\ temp_files' = IF o = "fail_early" THEN temp_files
                           ELSE temp_files \cup {TempFile(2)}
          /\ cur' = [cur EXCEPT
                       !.m2 = @ + 1,
                       !.m2_failed = o \in {"fail_early", "fail_mid"},
                       !.created = IF o = "fail_early" THEN @
                                   ELSE @ \cup {TempFile(2)},
                       !.temp_filename = IF o \in {"ok", "empty"} THEN 2 ELSE @,
                       !.empty = (o = "empty"),
                       !.returned = o \in {"fail_early", "fail_mid"},
                       !.content = None]
          /\ dl_failed_episodes' =
                IF o \in {"fail_early", "fail_mid"}
                THEN dl_failed_episodes + 1 ELSE dl_failed_episodes
    /\ net' = net \cup {"audio_urllib"}
    /\ UNCHANGED <<world, invoked, reason, output_dir, idx, processed,
                   successful_downloads, failed_downloads, files, load_calls,
                   model_loads, nonempty_downloads>>
    /\ UNCHANGED <<sanitize_vars, page_vars>>

\* lines 244-256: no file name, or an empty file (unlinked), returns None
CheckFile ==
    /\ pc = "check_file"
    /\ IF cur.temp_filename = 0
       THEN /\ cur' = [cur EXCEPT !.returned = TRUE, !.content = None]
            /\ pc' = "write"
            /\ UNCHANGED <<temp_files, nonempty_downloads>>
       ELSE IF cur.empty
            THEN /\ temp_files' = temp_files \ {TempFile(cur.temp_filename)}
                 /\ cur' = [cur EXCEPT !.returned = TRUE, !.content = None]
                 /\ pc' = "write"
                 /\ UNCHANGED nonempty_downloads
            ELSE /\ nonempty_downloads' = nonempty_downloads + 1
                 /\ pc' = "load_model"
                 /\ UNCHANGED <<temp_files, cur>>
    /\ UNCHANGED <<world, invoked, net, reason, output_dir, idx, processed,
                   successful_downloads, failed_downloads, files, load_calls,
                   model_loads, dl_failed_episodes>>
    /\ UNCHANGED <<sanitize_vars, page_vars>>

\* loading the model only when no earlier invocation of the run loaded it
LoadModelCached ==
    /\ pc = "load_model"
    /\ IF model_loads > 0
       THEN /\ pc' = "transcribe"
            /\ UNCHANGED <<cur, temp_files, load_calls, model_loads>>
       ELSE \E ok \in BOOLEAN :
               /\ load_calls' = load_calls + 1
               /\ model_loads' = IF ok THEN model_loads + 1 ELSE model_loads
               /\ pc' = IF ok THEN "transcribe" ELSE "write"
               /\ temp_files' =
                     IF ok THEN temp_files
                     ELSE temp_files \ {TempFile(cur.temp_filename)}
               /\ cur' = [cur EXCEPT !.loads = @ + 1,
                                     !.returned = ~ok,
                                     !.content = None]
    /\ UNCHANGED <<world, invoked, net, reason, output_dir, idx, processed,
                   successful_downloads, failed_downloads, files,
                   nonempty_downloads, dl_failed_episodes>>
    /\ UNCHANGED <<sanitize_vars, page_vars>>

\* lines 258-272: whisper.load_model("base"), called by every invocation
\* that gets here; when it raises the file is unlinked and None returned
LoadModel ==
    /\ pc = "load_model"
    /\ \E ok \in BOOLEAN :
          /\ load_calls' = load_calls + 1
          /\ model_loads' = IF ok THEN model_loads + 1 ELSE model_loads
          /\ pc' = IF ok THEN "transcribe" ELSE "write"
          /\ temp_files' =
                IF ok THEN temp_files
                ELSE temp_files \ {TempFile(cur.temp_filename)}
          /\ cur' = [cur EXCEPT !.loads = @ + 1,
                                !.returned = ~ok,
                                !.content = None]
    /\ UNCHANGED <<world, invoked, net, reason, output_dir, idx, processed,
                   successful_downloads, failed_downloads, files,
                   nonempty_downloads, dl_failed_episodes>>
    /\ UNCHANGED <<sanitize_vars, page_vars>>

\* what model.transcribe and result["text"] can do: a text, an empty text,
\* an exception of transcribe (lines 287-292 unlink the file), a result
\* without "text" (the file is unlinked at line 279 before the KeyError)
TranscribeOutcomes == {"text", "empty_text", "raised", "no_text"}

\* lines 274-292: transcribe, unlink the file, return the text or None
Transcribe ==
    /\ pc = "transcribe"
    /\ \E o \in TranscribeOutcomes :
          cur' = [cur EXCEPT
                    !.transcribes = @ + 1,
                    !.returned = TRUE,
                    !.content = CASE o = "text" -> Str(<<"w">>)
                                  [] o = "empty_text" -> Str(<<>>)
                                  [] OTHER -> None]
    /\ temp_files' = temp_files \ {TempFile(cur.temp_filename)}
    /\ pc' = "write"
    /\ UNCHANGED <<world, invoked, net, reason, output_dir, idx, processed,
                   successful_downloads, failed_downloads, files, load_calls,
                   model_loads, nonempty_downloads, dl_failed_episodes>>
    /\ UNCHANGED <<sanitize_vars, page_vars>>

(***************************************************************************)
(* download_transcript, lines 105-134, and the counters, lines 365-371     *)
(***************************************************************************)
\* filename of download_transcript for the current episode
FileName == sanitize(Entries[idx].title)

\* lines 119-134 and 365-368.  A truthy transcript_content opens the file
\* (truncating it) and writes the header, then the content: f.write raises
\* TypeError on a content that is not a str, and nothing up to main catches
\* it.  A falsy one writes nothing and counts a failure.
WriteTranscript ==
    /\ pc = "write"
    /\ IF Truthy(cur.content)
       THEN IF cur.content.kind = "str"
            THEN /\ files' = [files EXCEPT ![FileName] =
                                [ep |-> idx, body |-> cur.content,
                                 complete |-> TRUE]]
                 /\ successful_downloads' = successful_downloads + 1
                 /\ cur' = [cur EXCEPT !.written = @ + 1, !.result = "true",
                                       !.previous = files[FileName]]
                 /\ pc' = "sleep"
            ELSE /\ files' = [files EXCEPT ![FileName] =
                                [ep |-> idx, body |-> None,
                                 complete |-> FALSE]]
                 /\ UNCHANGED successful_downloads
                 /\ cur' = [cur EXCEPT !.written = @ + 1, !.result = "raised",
                                       !.previous = files[FileName]]
                 /\ pc' = "crashed"
       ELSE /\ cur' = [cur EXCEPT !.result = "false"]
            /\ pc' = "sleep"
            /\ UNCHANGED <<files, successful_downloads>>
    /\ failed_downloads' =
          IF Truthy(cur.content) THEN failed_downloads ELSE failed_downloads + 1
    /\ UNCHANGED <<world, invoked, net, reason, output_dir, idx, processed,
                   temp_files, load_calls, model_loads, nonempty_downloads,
                   dl_failed_episodes>>
    /\ UNCHANGED <<sanitize_vars, page_vars>>

\* line 371: time.sleep(1), then the next iteration
Sleep ==
    /\ pc = "sleep"
    /\ pc' = "loop"
    /\ cur' = CurIdle
    /\ UNCHANGED <<world, invoked, net, reason, output_dir, idx, processed,
                   successful_downloads, failed_downloads, files, temp_files,
                   load_calls, model_loads, nonempty_downloads,
                   dl_failed_episodes>>
    /\ UNCHANGED <<sanitize_vars, page_vars>>

Next ==
    \/ ExtractPodcastId
    \/ GetPodcastInfo
    \/ CheckFeedUrl
    \/ GetRssFeed
    \/ NextEpisode
    \/ Finish
    \/ FetchTranscriptContent
    \/ ImportWhisper
    \/ Method1
    \/ Method2
    \/ CheckFile
    \/ LoadModel
    \/ Transcribe
    \/ WriteTranscript
    \/ Sleep

Spec == Init /\ [][Next]_vars

(***************************************************************************)
(* SpecSanitize: the title sanitization on every title of SanitizeTitles   *)
(***************************************************************************)
\* a word character, an underscore, the two separators, an unsafe character
SanitizeAlphabet == {"a", "_", " ", "-", "!"}

\* "My Episode: Part #2!"
ExampleTitle ==
    <<"M", "y", " ", "E", "p", "i", "s", "o", "d", "e", ":", " ",
      "P", "a", "r", "t", " ", "#", "2", "!">>

\* "My-Episode-Part-2"
ExampleSafe ==
    <<"M", "y", "-", "E", "p", "i", "s", "o", "d", "e", "-",
      "P", "a", "r", "t", "-", "2">>

SanitizeTitles == SeqsUpTo(SanitizeAlphabet, MaxTitleLen) \cup {ExampleTitle}

FixedInputs ==
    /\ apple_podcast_url = <<>>
    /\ lookup_response = [ok |-> FALSE, resultCount |-> 0, feedUrl |-> ""]
    /\ feed_response = [status |-> 404, raised |-> FALSE, entries |-> <<>>]

InitSanitize ==
    /\ RunInit
    /\ FixedInputs
    /\ PageIdle
    /\ title \in SanitizeTitles
    /\ safe_once = None
    /\ safe_twice = None

\* lines 107-109 on the title
SanitizeTitle ==
    /\ safe_once = None
    /\ safe_once' = Str(sanitize(title))
    /\ UNCHANGED <<title, safe_twice, run_vars, page_vars>>

\* lines 107-109 on a title that is the safe_title of another
SanitizeAgain ==
    /\ safe_once # None
    /\ safe_twice = None
    /\ safe_twice' = Str(sanitize(safe_once.text))
    /\ UNCHANGED <<title, safe_once, run_vars, page_vars>>

NextSanitize ==
    \/ SanitizeTitle
    \/ SanitizeAgain

SpecSanitize == InitSanitize /\ [][NextSanitize]_vars

(***************************************************************************)
(* SpecPage: check_existing_transcript on every page of Pages              *)
(***************************************************************************)
InitPage ==
    /\ RunInit
    /\ FixedInputs
    /\ SanitizeIdle
    /\ page \in Pages
    /\ page_out = [called |-> FALSE,
                   out |-> [result |-> None, matched |-> FALSE, tried |-> <<>>]]

\* check_existing_transcript(episode_url) on the page
CheckPage ==
    /\ ~page_out.called
    /\ page_out' = [called |-> TRUE, out |-> check_existing_transcript(page)]
    /\ UNCHANGED <<page, run_vars, sanitize_vars>>

NextPage == CheckPage

SpecPage == InitPage /\ [][NextPage]_vars

(***************************************************************************)
(* Properties                                                              *)
(***************************************************************************)
\* the episode in cur has been through download_transcript
EpisodeOver == pc \in {"sleep", "crashed"}

\* C1, as stated: whenever a JSON-LD 'transcript' field or an HTML transcript
\* container matched on the episode's page, transcribe_audio_with_whisper is
\* not invoked for the episode.
C1_MatchNeverTranscribes == cur.matched => cur.whisper_calls = 0

\* C1, amended: when check_existing_transcript returns a truthy transcript,
\* transcribe_audio_with_whisper is never invoked for the episode and no
\* audio is downloaded, with or without an audio URL; a match that yields an
\* empty transcript counts as no transcript, and the audio of an episode
\* that has an audio URL is then transcribed.
C1_TruthyNeverTranscribes ==
    /\ Truthy(cur.transcript) =>
          /\ cur.whisper_calls = 0
          /\ cur.m1 = 0 /\ cur.m2 = 0 /\ cur.loads = 0 /\ cur.transcribes = 0
          /\ cur.content \in {None, cur.transcript}
    /\ (EpisodeOver /\ ~Truthy(cur.transcript) /\ cur.audio_url # "") =>
          cur.whisper_calls = 1

\* C1 witness: an episode with an audio URL whose page gave a transcript
\* has been written without any transcription.
C1_Witness ==
    /\ pc = "sleep"
    /\ cur.audio_url # ""
    /\ cur.matched
    /\ Truthy(cur.transcript)
    /\ cur.result = "true"

\* C2: when transcribe_audio_with_whisper has returned, no temporary file
\* that the invocation created exists, and none exists when the next episode
\* starts.
C2_NoTempFileLeft ==
    /\ cur.returned => cur.created \cap temp_files = {}
    /\ pc = "loop" => temp_files = {}

\* C3: when download_all_transcripts has ended on a fetched feed, every
\* entry has been processed once, in feed order, and
\* successful_downloads + failed_downloads is the number of entries.
C3_EveryEntryCounted ==
    pc \in {"done", "crashed"} =>
       /\ processed = [k \in 1..Len(Entries) |-> k]
       /\ successful_downloads + failed_downloads = Len(Entries)

\* the first of the four checks that the inputs of the run fail, "" if none
FirstFailure ==
    IF \A p \in 1..Len(apple_podcast_url) :
          ~(/\ p + 3 <= Len(apple_podcast_url)
            /\ SubSeq(apple_podcast_url, p, p + 2) = <<"/", "i", "d">>
            /\ apple_podcast_url[p + 3] \in Digits)
    THEN "no_podcast_id"
    ELSE IF ~lookup_response.ok \/ lookup_response.resultCount = 0
         THEN "no_podcast_info"
         ELSE IF lookup_response.feedUrl = ""
              THEN "no_feed_url"
              ELSE IF feed_response.raised \/ feed_response.status # 200
                   THEN "feed_failed"
                   ELSE ""

\* C4: the pipeline stops at the first failing check among identifier,
\* metadata, feed address and feed fetch; in the stopped state only the
\* stages up to that check have been invoked, no episode has been processed,
\* no file has been written, and with a missing identifier no network call
\* has been made; a run whose inputs fail a check never reaches the loop.
C4_StopsAtFirstFailure ==
    /\ pc = "aborted" =>
          /\ reason = FirstFailure
          /\ idx = 0 /\ processed = <<>>
          /\ "download_transcript" \notin invoked
          /\ \A f \in FileNames : files[f] = NoFile
          /\ successful_downloads = 0 /\ failed_downloads = 0
          /\ temp_files = {}
          /\ reason = "no_podcast_id" =>
                invoked = {"extract_podcast_id"} /\ net = {}
          /\ reason \in {"no_podcast_info", "no_feed_url"} =>
                /\ invoked = {"extract_podcast_id", "get_podcast_info"}
                /\ net = {"lookup"}
          /\ reason = "feed_failed" =>
                /\ invoked = {"extract_podcast_id", "get_podcast_info",
                              "get_rss_feed"}
                /\ net = {"lookup", "feed"}
    /\ FirstFailure = "no_podcast_id" => net = {}
    /\ FirstFailure # "" =>
          /\ pc \in {"start", "lookup", "feed_url", "fetch_feed", "aborted"}
          /\ "download_transcript" \notin invoked
    /\ FirstFailure \in {"no_podcast_id", "no_podcast_info", "no_feed_url"} =>
          "get_rss_feed" \notin invoked

\* C4 witness: the run stopped on a URL without identifier although the
\* lookup and the feed would have answered.
C4_Witness ==
    /\ pc = "aborted"
    /\ reason = "no_podcast_id"
    /\ lookup_response.ok /\ lookup_response.resultCount > 0
    /\ lookup_response.feedUrl # ""
    /\ Len(feed_response.entries) > 0

\* C5: an episode without audio URL whose page yields no transcript is
\* counted as a failure, without any transcription, audio download or
\* temporary file, and without a file written for it.
C5_NoAudioNoTranscriptFails ==
    (EpisodeOver /\ cur.audio_url = "" /\ ~Truthy(cur.transcript)) =>
       /\ cur.result = "false"
       /\ failed_downloads = cur.failed_before + 1
       /\ successful_downloads = cur.successful_before
       /\ cur.whisper_calls = 0
       /\ cur.m1 = 0 /\ cur.m2 = 0 /\ cur.loads = 0 /\ cur.transcribes = 0
       /\ cur.created = {}
       /\ cur.written = 0

\* C5 witness: such an episode, whose page has an empty transcript
\* container, is over.
C5_Witness ==
    /\ pc = "sleep"
    /\ cur.audio_url = ""
    /\ cur.matched
    /\ ~Truthy(cur.transcript)
    /\ cur.result = "false"

\* C6: an episode writes at most one file; when an episode whose transcript
\* was resolved has the filename of an earlier successful episode, the file
\* afterwards holds the later episode's header and transcript, and the later
\* episode is counted as a success like the earlier one.
C6_LastWriterWins ==
    /\ cur.written <= 1
    /\ (EpisodeOver /\ Truthy(cur.content) /\ cur.previous.complete) =>
          /\ files[FileName] =
                [ep |-> idx, body |-> cur.content, complete |-> TRUE]
          /\ successful_downloads = cur.successful_before + 1
          /\ successful_downloads >= 2

\* C7: sanitizing a sanitized title changes nothing, and
\* "My Episode: Part #2!" gives "My-Episode-Part-2".
C7_SanitizeIdempotent ==
    /\ safe_twice # None => safe_twice = safe_once
    /\ (title = ExampleTitle /\ safe_once # None) =>
          safe_once = Str(ExampleSafe)

\* C7 witness: the example title has been sanitized twice.
C7_Witness ==
    /\ title = ExampleTitle
    /\ safe_twice # None
    /\ safe_once.text # title

C9_TwoTransportFallback ==
    /\ cur.m1 <= 1 /\ cur.m2 <= 1
    /\ cur.m2 > 0 => cur.m1 = 1 /\ cur.m1_failed
    /\ (cur.m1_failed /\ pc # "method2") => cur.m2 = 1
    /\ (cur.m1_failed /\ cur.m2_failed) =>
          /\ cur.returned
          /\ cur.content = None
          /\ cur.loads = 0 /\ cur.transcribes = 0
    /\ (cur.imported /\ pc # "method1") => cur.m1 = 1

\* C9 witness: after an episode in which both transports failed, the next
\* episode has used both transports and the second one succeeded.
C9_Witness ==
    /\ idx = 2
    /\ dl_failed_episodes = 1
    /\ cur.m1 = 1 /\ cur.m1_failed
    /\ cur.m2 = 1 /\ ~cur.m2_failed

\* the sources of check_existing_transcript in the claimed order
Sources == <<"json_ld", "div_class", "section_class", "div_id">>

\* source k of the page matched
SourceMatched(pg, k) ==
    CASE k = 1 -> pg.json_ld.kind = "field"
      [] k = 2 -> pg.div_class.m
      [] k = 3 -> pg.section_class.m
      [] k = 4 -> pg.div_id.m

\* what source k of the page holds
SourceValue(pg, k) ==
    CASE k = 1 -> pg.json_ld.value
      [] k = 2 -> clean_html(pg.div_class.frag)
      [] k = 3 -> clean_html(pg.section_class.frag)
      [] k = 4 -> clean_html(pg.div_id.frag)

\* C10: on a fetched page the sources are consulted in the order JSON-LD,
\* div class, section class, div id; a source is consulted only when no
\* earlier one matched, and the result is that of the first that matches,
\* None when none does.
C10_FirstMatchWins ==
    (page_out.called /\ page.url # "" /\ page.http = "ok") =>
       LET out == page_out.out
           hits == {k \in 1..4 : SourceMatched(page, k)}
       IN  /\ \A j \in 1..Len(out.tried) :
                 /\ out.tried[j] = Sources[j]
                 /\ \A i \in 1..(j - 1) : ~SourceMatched(page, i)
           /\ hits = {} => out.result = None /\ out.tried = Sources
           /\ hits # {} =>
                 /\ out.result = SourceValue(page, Min(hits))
                 /\ out.tried = SubSeq(Sources, 1, Min(hits))
           /\ out.matched = (hits # {})

\* C10 witness: a page whose JSON-LD block has no transcript field and whose
\* section and id patterns both match has given the section's text.
C10_Witness ==
    /\ page_out.called
    /\ page.url # "" /\ page.http = "ok"
    /\ page.json_ld.kind = "nofield"
    /\ ~page.div_class.m
    /\ page.section_class = Match(<<" ", "s", " ">>)
    /\ page.div_id = Match(<<"i", "&amp;">>)
    /\ page_out.out.result = Str(<<"s">>)

====
